---- MODULE Spec2Model ----
(***************************************************************************)
(* A model of aptos/filter_consensus_logs.py: run-directory discovery      *)
(* (find_run_dirs), the per-run-directory filter (filter_one_run_dir with  *)
(* get_writers and write_record) and the aggregation loop of main.         *)
(*                                                                         *)
(* Conventions.                                                            *)
(*   - An Optional value is a sequence: <<>> is None, <<x>> is x.          *)
(*   - A string that is compared or sorted (a directory name, an           *)
(*     environment variable) is a sequence of character codes.             *)
(*   - A file name is a record [stem, num, ext]: "stdout_0.log" is         *)
(*     [stem |-> "stdout", num |-> <<0>>, ext |-> "log"]; num is <<>>      *)
(*     when no digits follow the stem.                                     *)
(*   - A log line is a record [match, level, msg, event]: whether LINE_RE  *)
(*     matches it, its level and message groups, and the event of its     *)
(*     JSON payload (None without one).                                    *)
(***************************************************************************)
EXTENDS Integers, Sequences, FiniteSets, TLC

VARIABLES
    \* ---- the file system and the environment
    topfiles,       \* file names directly under the RUN_ID directory
    dirs,           \* immediate subdirectory name -> file names anywhere below it
    test_name,      \* os.getenv("TEST_NAME")
    sched_type,     \* os.getenv("SCHED_TYPE")
    disk,           \* <<directory, file name>> -> the lines of that log file
    \* ---- main
    mpc,            \* position of main
    level_set,      \* Optional set of levels
    run_dirs,       \* what find_run_dirs returned
    rdIdx,          \* index into run_dirs of the directory being processed
    total_scanned,
    total_kept,
    \* ---- filter_one_run_dir (the current call)
    fpc,            \* position inside filter_one_run_dir
    listing,        \* what iter_log_files yields, in traversal order
    fileIdx,        \* index into listing of the current source file
    lineNo,         \* lines of the current source file read so far
    scanned,
    kept,
    writers,        \* node id -> TRUE once get_writers stored its pair
    node_jsonl,     \* node id -> contents of node<id>.jsonl
    node_log,       \* node id -> contents of node<id>.log
    all_jsonl,      \* contents of all_nodes.jsonl
    all_log,        \* contents of all_nodes.log
    openSinks,      \* the sink handles that are open
    outOwner,       \* Optional: the directory whose output subdirectory exists
    outFiles,       \* the file names in that output subdirectory
    \* ---- history
    hist,           \* what the environment has done so far (see HistInit)
    run,            \* number of the invocation of main (1 or 2)
    firstRun        \* the outputs and counts of the first invocation

fsVars   == <<topfiles, dirs, test_name, sched_type, disk>>
mainVars == <<mpc, level_set, run_dirs, rdIdx, total_scanned, total_kept>>
callVars == <<fpc, listing, fileIdx, lineNo, scanned, kept, writers>>
sinkVars == <<node_jsonl, node_log, all_jsonl, all_log, openSinks, outOwner, outFiles>>
vars     == <<fsVars, mainVars, callVars, sinkVars, hist, run, firstRun>>

----------------------------------------------------------------------------
(* Bounds of the model.                                                    *)

\* Lines per source log file.
MaxLines == 1

\* I/O failures the environment injects into one invocation.
MaxFailures == 1

----------------------------------------------------------------------------
(* Values.                                                                 *)

None == <<>>
Some(x) == <<x>>

\* Character codes: "_" "." and a few letters and digits.
US == <<95>>
TopName == <<46>>
OutSubdir == <<102>>

NodeIds == {0, 1}

FileName(stem, num, ext) == [stem |-> stem, num |-> num, ext |-> ext]
StdoutLog(n) == FileName("stdout", Some(n), "log")
StderrLog(n) == FileName("stderr", Some(n), "log")

\* NODE_FROM_FILENAME_RE.match(name): (stdout|stderr)_<digits>.log
NodeFromFilename(f) ==
    IF f.stem \in {"stdout", "stderr"} /\ f.num # None /\ f.ext = "log"
    THEN Some(f.num[1])
    ELSE None

----------------------------------------------------------------------------
(* Run-directory discovery.                                                *)

\* d.rglob("*") restricted to files: every file name below directory d.
OutFilesOf(d) == IF outOwner = Some(d) THEN outFiles ELSE {}

FilesBelow(d) ==
    IF d = TopName
    THEN topfiles \cup UNION {dirs[s] : s \in DOMAIN dirs} \cup outFiles
    ELSE IF d \in DOMAIN dirs THEN dirs[d] \cup OutFilesOf(d)
    ELSE outFiles

\* p for p in run_id_dir.iterdir() if p.is_dir(): the immediate subdirectories,
\* the output subdirectory of an earlier pass over the top directory included.
SubDirs ==
    DOMAIN dirs \cup (IF outOwner = Some(TopName) THEN {OutSubdir} ELSE {})

looks_like_run_dir(d) ==
    \E f \in FilesBelow(d) : NodeFromFilename(f) # None

\* Python truthiness of an Optional[str]: set and not empty.
Truthy(v) == v # None /\ v[1] # <<>>

expected_run_prefix ==
    IF Truthy(test_name) /\ Truthy(sched_type)
    THEN Some(test_name[1] \o US \o sched_type[1] \o US)
    ELSE None

startswith(s, p) ==
    Len(p) <= Len(s) /\ SubSeq(s, 1, Len(p)) = p

\* Order of two sibling paths: the order of their names, code by code.
RECURSIVE PathLess(_, _)
PathLess(a, b) ==
    IF a = <<>> THEN b # <<>>
    ELSE IF b = <<>> THEN FALSE
    ELSE IF Head(a) # Head(b) THEN Head(a) < Head(b)
    ELSE PathLess(Tail(a), Tail(b))

RECURSIVE sorted(_)
sorted(S) ==
    IF S = {} THEN <<>>
    ELSE LET m == CHOOSE x \in S : \A y \in S : x = y \/ PathLess(x, y)
         IN  <<m>> \o sorted(S \ {m})

\* find_run_dirs without the fall-through of line 112: the hinted list is
\* returned whenever a prefix is expected, empty or not.
find_run_dirs_hint_only ==
    LET candidates == sorted(SubDirs)
        pref == expected_run_prefix
        HasPref(d) == startswith(d, pref[1])
    IN  IF pref # None
        THEN SelectSeq(SelectSeq(candidates, HasPref), looks_like_run_dir)
        ELSE SelectSeq(candidates, looks_like_run_dir)

find_run_dirs ==
    LET candidates == sorted(SubDirs)
        pref == expected_run_prefix
        HasPref(d) == startswith(d, pref[1])
        hinted == IF pref # None
                  THEN SelectSeq(SelectSeq(candidates, HasPref), looks_like_run_dir)
                  ELSE <<>>
        autodetected == SelectSeq(candidates, looks_like_run_dir)
    IN  IF hinted # <<>> THEN hinted
        ELSE IF autodetected # <<>> THEN autodetected
        ELSE IF looks_like_run_dir(TopName) THEN <<TopName>>
        ELSE <<>>

----------------------------------------------------------------------------
(* Lines, records and the level filter.                                    *)

\* KW_RE.search(s) on the few texts the model uses.
KwSearch(s) == s \in {"NewRound", "Vote"}

Line(m, lv, msg, ev) == [match |-> m, level |-> lv, msg |-> msg, event |-> ev]

\* The lines a log file may hold: noise that LINE_RE rejects, a well-formed line
\* with no keyword, one kept by its message, one kept by its payload's event.
LineKinds ==
    { Line(FALSE, "INFO", "NewRound", None),
      Line(TRUE, "INFO", "hello", Some("Ping")),
      Line(TRUE, "INFO", "NewRound", None),
      Line(TRUE, "WARN", "hello", Some("Vote")) }

\* parse_line: None, or the record built from the line. The timestamp of a line
\* is modelled by its position in its file.
parse_line(line, ts) ==
    IF ~line.match THEN None
    ELSE LET keepEvent == line.event # None /\ KwSearch(line.event[1])
             keep == keepEvent \/ KwSearch(line.msg)
         IN  IF ~keep THEN None
             ELSE Some([ts |-> ts, level |-> line.level, msg |-> line.msg,
                        event |-> line.event])

\* x.strip().upper() on the tokens the model uses.
StripUpper(t) ==
    CASE t = " warn" -> "WARN"
      [] t = "info"  -> "INFO"
      [] t = " "     -> ""
      [] OTHER       -> t

\* The values of --levels: unset, or the tokens args.levels.split(",") yields
\* ("" splits to <<"">>, "," to <<"", "">>).
LevelArgs == { None, Some(<<"">>), Some(<<"", " ">>), Some(<<" warn">>) }

\* main's level_set: None unless args.levels is a non-empty string.
ParseLevels(arg) ==
    IF arg = None \/ arg[1] = <<"">> THEN None
    ELSE Some({ StripUpper(arg[1][i]) :
                  i \in { j \in DOMAIN arg[1] : StripUpper(arg[1][j]) # "" } })

\* The guard of line 275 negated: the record passes the level filter.
\* "level_set and ..." is Python truthiness: None and the empty set are false.
LevelPass(rec) ==
    ~((level_set # None /\ level_set[1] # {}) /\ rec.level \notin level_set[1])

\* write_record's enrichment: the record with its provenance.
Enrich(rec, source_file, run_name, node_id) ==
    [ts |-> rec.ts, level |-> rec.level, msg |-> rec.msg, event |-> rec.event,
     source_file |-> source_file, run_dir |-> run_name, node |-> node_id]

\* The two serialisations write_record produces.
JsonLine(rec) == rec
PrettyLine(rec) == [ts |-> rec.ts, msg |-> rec.msg]

----------------------------------------------------------------------------
(* Helpers of the state machine.                                           *)

Orderings(S) ==
    { s \in [1..Cardinality(S) -> S] : \A i, j \in DOMAIN s : i # j => s[i] # s[j] }

\* iter_log_files(root): the matching files below root; rglob fixes no order.
LogFilesOf(d) == { f \in FilesBelow(d) : NodeFromFilename(f) # None }

NodeJsonl(n) == FileName("node", Some(n), "jsonl")
NodeLog(n) == FileName("node", Some(n), "log")
AllJsonl == FileName("all_nodes", None, "jsonl")
AllLog == FileName("all_nodes", None, "log")

AllJf == <<"all_jf", 0>>
AllTf == <<"all_tf", 0>>
NodeJf(n) == <<"node_jf", n>>
NodeTf(n) == <<"node_tf", n>>
LeakedJf(n) == <<"unreferenced_jf", n>>

HistInit(faults) ==
    [sinkError |-> FALSE,   \* the output directory or a sink could not be created,
                            \* or a write to a sink failed
     srcError |-> FALSE,    \* a source file could not be opened or read
     faults |-> faults,     \* failures the environment may still inject
     read |-> 0,            \* this call: lines read from source files
     full |-> 0,            \* this call: source files read to their end
     skipped |-> 0,         \* this call: source files given up on a source error
     sunk |-> 0]            \* this call: source files given up on a sink error

CanFail == hist.faults > 0

curDir == run_dirs[rdIdx]
curFile == listing[fileIdx]

\* A handler that lets the OSError go.
ExceptOSErrorReraise == "raise"

\* What the handler of line 286 does with an OSError raised inside the try.
ExceptOSError == "continue"

\* kept counted once per write_record call instead of once per record.
KeptPerWriteCall(k) == k + 2

\* The statement of line 285.
KeptAfterRecord(k) == k + 1

\* The statement of line 267.
ScannedAfterLine(s) == s + 1

----------------------------------------------------------------------------
(* main.                                                                   *)

\* Lines 300-317 and 334-335: the arguments, the level set, find_run_dirs.
\* The model covers invocations whose run_dir argument is a directory.
MainStart ==
    /\ mpc = "start"
    /\ \E arg \in LevelArgs :
          /\ run = 2 => ParseLevels(arg) = level_set
          /\ level_set' = ParseLevels(arg)
    /\ run_dirs' = find_run_dirs
    /\ rdIdx' = 1
    /\ total_scanned' = 0
    /\ total_kept' = 0
    /\ mpc' = "loop"
    /\ UNCHANGED <<fsVars, callVars, sinkVars, hist, run, firstRun>>

\* Lines 337-339 and 242-260: main calls filter_one_run_dir, which creates the
\* output directory and opens the two combined sinks. A failure of mkdir or of
\* either open is outside any try and propagates out of main.
MainEnter ==
    /\ mpc = "loop"
    /\ fpc = "idle"
    /\ rdIdx <= Len(run_dirs)
    /\ \E out \in {"ok"} \cup (IF CanFail THEN {"mkdir", "all_jf", "all_tf"} ELSE {}),
          order \in Orderings(LogFilesOf(curDir)) :
          LET same == outOwner = Some(curDir)
              before == IF same THEN outFiles ELSE {}
              made == out # "mkdir"
              jfOpen == out \in {"ok", "all_tf"}
              tfOpen == out = "ok"
          IN  /\ outOwner' = IF made THEN Some(curDir) ELSE outOwner
              /\ outFiles' = IF ~made THEN outFiles
                             ELSE before \cup (IF jfOpen THEN {AllJsonl} ELSE {})
                                         \cup (IF tfOpen THEN {AllLog} ELSE {})
              /\ node_jsonl' = IF made /\ ~same THEN [n \in NodeIds |-> <<>>] ELSE node_jsonl
              /\ node_log' = IF made /\ ~same THEN [n \in NodeIds |-> <<>>] ELSE node_log
              /\ all_jsonl' = IF jfOpen \/ (made /\ ~same) THEN <<>> ELSE all_jsonl
              /\ all_log' = IF tfOpen \/ (made /\ ~same) THEN <<>> ELSE all_log
              /\ openSinks' = (IF jfOpen THEN {AllJf} ELSE {}) \cup (IF tfOpen THEN {AllTf} ELSE {})
              /\ writers' = [n \in NodeIds |-> FALSE]
              /\ scanned' = 0
              /\ kept' = 0
              /\ fileIdx' = 0
              /\ lineNo' = 0
              /\ listing' = order
              /\ fpc' = IF out = "ok" THEN "files" ELSE "raised"
              /\ mpc' = IF out = "ok" THEN "call" ELSE "raised"
              /\ hist' = [hist EXCEPT !.sinkError = @ \/ out # "ok",
                                      !.faults = IF out = "ok" THEN @ ELSE @ - 1,
                                      !.read = 0, !.full = 0, !.skipped = 0, !.sunk = 0]
    /\ UNCHANGED <<fsVars, level_set, run_dirs, rdIdx, total_scanned, total_kept,
                   run, firstRun>>

\* Lines 341-347: main adds the returned pair to its totals.
MainAccumulate ==
    /\ mpc = "call"
    /\ fpc = "returned"
    /\ total_scanned' = total_scanned + scanned
    /\ total_kept' = total_kept + kept
    /\ rdIdx' = rdIdx + 1
    /\ mpc' = "loop"
    /\ fpc' = "idle"
    /\ UNCHANGED <<fsVars, level_set, run_dirs, listing, fileIdx, lineNo, scanned,
                   kept, writers, sinkVars, hist, run, firstRun>>

\* Line 349: the loop is over, main prints the totals and returns.
MainDone ==
    /\ mpc = "loop"
    /\ fpc = "idle"
    /\ rdIdx > Len(run_dirs)
    /\ mpc' = "done"
    /\ UNCHANGED <<fsVars, level_set, run_dirs, rdIdx, total_scanned, total_kept,
                   callVars, sinkVars, hist, run, firstRun>>

----------------------------------------------------------------------------
(* filter_one_run_dir.                                                     *)

\* The lines the current source file may yield next: any line while its content
\* is open, the recorded one when the disk content is fixed.
NextLines ==
    IF disk = None
    THEN IF lineNo < MaxLines THEN LineKinds ELSE {}
    ELSE IF lineNo < Len(disk[1][curFile]) THEN {disk[1][curFile][lineNo + 1]} ELSE {}

AtEndOfFile == IF disk = None THEN TRUE ELSE lineNo = Len(disk[1][curFile])

\* Where the call stands after an OSError inside the try of lines 264-287.
AfterOSError == IF ExceptOSError = "continue" THEN "files" ELSE "raised"

\* Lines 263-265: the next (file, node_id) of iter_log_files; f.open may fail.
NextFile ==
    /\ fpc = "files"
    /\ fileIdx < Len(listing)
    /\ \E out \in {"ok"} \cup (IF CanFail THEN {"open"} ELSE {}) :
          /\ fpc' = IF out = "ok" THEN "lines" ELSE AfterOSError
          /\ mpc' = IF out = "ok" \/ AfterOSError = "files" THEN mpc ELSE "raised"
          /\ hist' = IF out = "ok" THEN hist
                     ELSE [hist EXCEPT !.srcError = TRUE, !.faults = @ - 1,
                                       !.skipped = @ + 1]
    /\ fileIdx' = fileIdx + 1
    /\ lineNo' = 0
    /\ UNCHANGED <<fsVars, level_set, run_dirs, rdIdx, total_scanned, total_kept,
                   listing, scanned, kept, writers, sinkVars, run, firstRun>>

\* What may happen to one line once read: nothing goes wrong, or (for a record
\* that is to be written) a sink cannot be created or one of the four writes fails.
Outcomes(line) ==
    LET node == NodeFromFilename(curFile)[1]
        p == parse_line(line, lineNo + 1)
        accepted == p # None /\ LevelPass(p[1])
    IN  {"ok"} \cup
        (IF CanFail /\ accepted
         THEN (IF writers[node] THEN {} ELSE {"jf", "tf"}) \cup {"w1", "w2", "w3", "w4"}
         ELSE {})

\* The writes completed before the failure: node jsonl, node log, all jsonl, all log.
WritesDone(out) ==
    CASE out = "ok" -> 4
      [] out = "w4" -> 3
      [] out = "w3" -> 2
      [] out = "w2" -> 1
      [] OTHER      -> 0

\* Lines 266-285: one iteration of the line loop, get_writers and both
\* write_record calls included.
ReadLine ==
    /\ fpc = "lines"
    /\ \E line \in NextLines :
       \E out \in Outcomes(line) :
          LET node == NodeFromFilename(curFile)[1]
              p == parse_line(line, lineNo + 1)
              accepted == p # None /\ LevelPass(p[1])
              enr == Enrich(p[1], curFile, curDir, node)
              opening == accepted /\ ~writers[node]
              jfMade == opening /\ out # "jf"
              tfMade == opening /\ out \notin {"jf", "tf"}
              w == IF accepted THEN WritesDone(out) ELSE 0
              failed == out # "ok"
          IN  /\ scanned' = ScannedAfterLine(scanned)
              /\ lineNo' = lineNo + 1
              /\ writers' = IF tfMade THEN [writers EXCEPT ![node] = TRUE] ELSE writers
              /\ openSinks' = openSinks
                                \cup (IF tfMade THEN {NodeJf(node), NodeTf(node)} ELSE {})
                                \cup (IF out = "tf" THEN {LeakedJf(node)} ELSE {})
              /\ outFiles' = outFiles
                                \cup (IF jfMade THEN {NodeJsonl(node)} ELSE {})
                                \cup (IF tfMade THEN {NodeLog(node)} ELSE {})
              /\ node_jsonl' = [node_jsonl EXCEPT ![node] =
                                  (IF jfMade THEN <<>> ELSE @)
                                  \o (IF w >= 1 THEN <<JsonLine(enr)>> ELSE <<>>)]
              /\ node_log' = [node_log EXCEPT ![node] =
                                  (IF tfMade THEN <<>> ELSE @)
                                  \o (IF w >= 2 THEN <<PrettyLine(enr)>> ELSE <<>>)]
              /\ all_jsonl' = IF w >= 3 THEN Append(all_jsonl, JsonLine(enr)) ELSE all_jsonl
              /\ all_log' = IF w >= 4 THEN Append(all_log, PrettyLine(enr)) ELSE all_log
              /\ kept' = IF accepted /\ ~failed THEN KeptAfterRecord(kept) ELSE kept
              /\ fpc' = IF failed THEN AfterOSError ELSE "lines"
              /\ mpc' = IF failed /\ AfterOSError = "raised" THEN "raised" ELSE mpc
              /\ hist' = IF failed
                         THEN [hist EXCEPT !.read = @ + 1, !.sinkError = TRUE,
                                           !.faults = @ - 1, !.sunk = @ + 1]
                         ELSE [hist EXCEPT !.read = @ + 1]
    /\ UNCHANGED <<fsVars, level_set, run_dirs, rdIdx, total_scanned, total_kept,
                   listing, fileIdx, outOwner, run, firstRun>>

\* Line 266: reading the next line raises OSError.
SourceReadError ==
    /\ fpc = "lines"
    /\ CanFail
    /\ fpc' = AfterOSError
    /\ mpc' = IF AfterOSError = "raised" THEN "raised" ELSE mpc
    /\ hist' = [hist EXCEPT !.srcError = TRUE, !.faults = @ - 1, !.skipped = @ + 1]
    /\ UNCHANGED <<fsVars, level_set, run_dirs, rdIdx, total_scanned, total_kept,
                   listing, fileIdx, lineNo, scanned, kept, writers, sinkVars,
                   run, firstRun>>

\* Line 266: the current source file is exhausted; the with block closes it.
EndOfFile ==
    /\ fpc = "lines"
    /\ AtEndOfFile
    /\ fpc' = "files"
    /\ hist' = [hist EXCEPT !.full = @ + 1]
    /\ UNCHANGED <<fsVars, mainVars, listing, fileIdx, lineNo, scanned, kept,
                   writers, sinkVars, run, firstRun>>

\* Lines 289-296: the sinks in writers and the combined sinks are closed and
\* (scanned, kept) is returned. (A close that fails is not modelled.)
CloseAll ==
    /\ fpc = "files"
    /\ fileIdx = Len(listing)
    /\ openSinks' = openSinks \ ({AllJf, AllTf}
                        \cup {NodeJf(n) : n \in {m \in NodeIds : writers[m]}}
                        \cup {NodeTf(n) : n \in {m \in NodeIds : writers[m]}})
    /\ fpc' = "returned"
    /\ UNCHANGED <<fsVars, mainVars, listing, fileIdx, lineNo, scanned, kept,
                   writers, node_jsonl, node_log, all_jsonl, all_log, outOwner,
                   outFiles, hist, run, firstRun>>

----------------------------------------------------------------------------
(* A second invocation over the tree the first one left.                   *)

Snapshot ==
    [files |-> outFiles, node_jsonl |-> node_jsonl, node_log |-> node_log,
     all_jsonl |-> all_jsonl, all_log |-> all_log,
     scanned |-> scanned, kept |-> kept,
     total_scanned |-> total_scanned, total_kept |-> total_kept]

Rerun ==
    /\ mpc = "done"
    /\ run = 1
    /\ firstRun' = Some(Snapshot)
    /\ run' = 2
    /\ mpc' = "start"
    /\ UNCHANGED <<fsVars, level_set, run_dirs, rdIdx, total_scanned, total_kept,
                   callVars, sinkVars, hist>>

----------------------------------------------------------------------------
(* Specifications.                                                         *)

Readme == FileName("readme", None, "txt")

InitProgram ==
    /\ mpc = "start"
    /\ level_set = None
    /\ run_dirs = <<>>
    /\ rdIdx = 1
    /\ total_scanned = 0
    /\ total_kept = 0
    /\ fpc = "idle"
    /\ listing = <<>>
    /\ fileIdx = 0
    /\ lineNo = 0
    /\ scanned = 0
    /\ kept = 0
    /\ writers = [n \in NodeIds |-> FALSE]
    /\ node_jsonl = [n \in NodeIds |-> <<>>]
    /\ node_log = [n \in NodeIds |-> <<>>]
    /\ all_jsonl = <<>>
    /\ all_log = <<>>
    /\ openSinks = {}
    /\ outOwner = None
    /\ outFiles = {}
    /\ run = 1
    /\ firstRun = None

\* One invocation over a RUN_ID directory with two run directories ("a_1" with
\* the logs of two nodes, "a_2" with two logs of one node) and a directory
\* without logs; the lines of the logs are open, and I/O may fail.
Init ==
    /\ InitProgram
    /\ topfiles = {Readme}
    /\ dirs = (<<97, 95, 49>> :> {StdoutLog(0), StderrLog(1)})
              @@ (<<97, 95, 50>> :> {StdoutLog(0), StderrLog(0), Readme})
              @@ (<<120>> :> {Readme})
    /\ test_name = None
    /\ sched_type = None
    /\ disk = None
    /\ hist = HistInit(MaxFailures)

Next ==
    \/ MainStart
    \/ MainEnter
    \/ NextFile
    \/ ReadLine
    \/ SourceReadError
    \/ EndOfFile
    \/ CloseAll
    \/ MainAccumulate
    \/ MainDone

Spec == Init /\ [][Next]_vars

\* find_run_dirs over every small tree and every setting of the two hints.
DirNames == { <<97, 95, 98, 95, 49>>, <<97, 95, 98, 95, 48>>, <<97, 95, 98>>, <<65>> }
DirContents == { {Readme}, {StderrLog(1), Readme} }
HintValues == { None, Some(<<>>), Some(<<97>>), Some(<<98>>) }

InitFind ==
    /\ InitProgram
    /\ topfiles \in { {}, {Readme}, {StdoutLog(0)} }
    /\ \E present \in SUBSET DirNames : dirs \in [present -> DirContents]
    /\ test_name \in HintValues \ {Some(<<98>>)}
    /\ sched_type \in HintValues \ {Some(<<97>>)}
    /\ disk = None
    /\ hist = HistInit(0)

SpecFind == InitFind /\ [][MainStart]_vars

\* Two invocations, one after the other, over the same logs, with no I/O failure.
SeqsUpTo(S, n) == UNION { [1..k -> S] : k \in 0..n }

InitRerun ==
    /\ InitProgram
    /\ \/ /\ topfiles = {Readme}
          /\ dirs = (<<114>> :> {StdoutLog(0), StderrLog(0)})
       \/ /\ topfiles = {StdoutLog(0), StderrLog(1)}
          /\ dirs = (<<120>> :> {Readme})
    /\ test_name = None
    /\ sched_type = None
    /\ \E content \in [LogFilesOf(TopName) -> SeqsUpTo(LineKinds, MaxLines)] :
          disk = Some(content)
    /\ hist = HistInit(0)

NextRerun ==
    \/ MainStart
    \/ MainEnter
    \/ NextFile
    \/ ReadLine
    \/ EndOfFile
    \/ CloseAll
    \/ MainAccumulate
    \/ MainDone
    \/ Rerun

SpecRerun == InitRerun /\ [][NextRerun]_vars

----------------------------------------------------------------------------
(* Properties.                                                             *)

Range(s) == { s[i] : i \in DOMAIN s }

RECURSIVE MapPretty(_)
MapPretty(s) ==
    IF s = <<>> THEN <<>> ELSE <<PrettyLine(Head(s))>> \o MapPretty(Tail(s))

OfNode(s, n) == SelectSeq(s, LAMBDA r : r.node = n)

RECURSIVE SumLen(_, _)
SumLen(f, S) ==
    IF S = {} THEN 0
    ELSE LET n == CHOOSE x \in S : TRUE IN Len(f[n]) + SumLen(f, S \ {n})

\* The records some structured sink of the current run directory holds.
StructuredRecords ==
    Range(all_jsonl) \cup UNION { Range(node_jsonl[n]) : n \in NodeIds }

InAllFour(e) ==
    /\ e \in Range(node_jsonl[e.node])
    /\ PrettyLine(e) \in Range(node_log[e.node])
    /\ e \in Range(all_jsonl)
    /\ PrettyLine(e) \in Range(all_log)

\* C1: in every reachable state, a record that is in one of the four sinks of
\* its run directory (per-node structured, per-node pretty, combined structured,
\* combined pretty) is in all four, also after a write has failed.
C1_AllOrNone ==
    /\ \A e \in StructuredRecords : InAllFour(e)
    /\ \A n \in NodeIds : Len(node_log[n]) = Len(node_jsonl[n])
    /\ Len(all_log) = Len(all_jsonl)

\* C2: once a sink could not be created or written, the error has propagated
\* out of filter_one_run_dir and main: nothing more is processed and the
\* invocation has ended abnormally.
C2_SinkErrorFatal ==
    hist.sinkError => (mpc = "raised" /\ fpc = "raised")

\* C3: kept <= scanned for the counters of the current run directory after every
\* line, for the pair filter_one_run_dir returns, and for main's totals.
C3_KeptLeScanned ==
    /\ kept <= scanned
    /\ total_kept <= total_scanned
    /\ fpc = "returned" => total_kept + kept <= total_scanned + scanned

\* Both run directories were processed and each kept some lines and dropped some.
C3_Witness ==
    /\ mpc = "done"
    /\ rdIdx = 3
    /\ 0 < total_kept
    /\ total_kept < total_scanned
    /\ 0 < kept
    /\ kept < scanned

\* C4: when filter_one_run_dir returns, each per-node structured sink holds
\* exactly the combined structured sink's records of that node, in the same
\* order; each pretty sink holds the pretty lines of its structured sibling in
\* the same order; and the combined sink is as long as the per-node sinks together.
C4_SinksAgree ==
    fpc = "returned" =>
        /\ \A n \in NodeIds : node_jsonl[n] = OfNode(all_jsonl, n)
        /\ \A n \in NodeIds : node_log[n] = MapPretty(node_jsonl[n])
        /\ all_log = MapPretty(all_jsonl)
        /\ Len(all_jsonl) = SumLen(node_jsonl, NodeIds)

\* C5: the pair filter_one_run_dir returns: scanned is the number of lines read
\* from the source files that could be opened, kept is the number of records in
\* the combined structured sink.
C5_CountsExact ==
    fpc = "returned" => (scanned = hist.read /\ kept = Len(all_jsonl))

\* C6: no execution leaves filter_one_run_dir, by return or by an exception,
\* with a sink still open.
C6_AllClosed ==
    fpc \in {"idle", "returned", "raised"} => openSinks = {}

\* A step that gives a source file up on a source error changes no sink and no
\* counter and goes on with the next file.
C7_SkipStep ==
    hist'.skipped = hist.skipped + 1 =>
        /\ UNCHANGED <<node_jsonl, node_log, all_jsonl, all_log, scanned, kept,
                       total_scanned, total_kept>>
        /\ fpc' = "files"
        /\ mpc' = mpc

\* While no sink has failed the invocation has not failed, and a run directory
\* that returns has read every file it did not give up to its end.
C7_SkipState ==
    /\ ~hist.sinkError => (mpc # "raised" /\ fpc # "raised")
    /\ (fpc = "returned" /\ ~hist.sinkError) =>
            (hist.full + hist.skipped = Len(listing) /\ kept = Len(all_jsonl))

\* C7: a source file that cannot be opened or read is skipped and nothing else
\* is lost: the step that gives the file up leaves every sink and both counters
\* as they were and goes on with the next file; as long as no sink has failed the
\* invocation does not fail, so the run directory returns its counts and the
\* later run directories are processed; and when the run directory returns,
\* every file of its listing was either given up on a source error or read to
\* its end.
C7_SourceErrorSkipped == [](C7_SkipState) /\ [][C7_SkipStep]_vars

\* A file of the second run directory was skipped, its sibling and the first
\* run directory were processed, and main finished.
C7_Witness ==
    /\ mpc = "done"
    /\ hist.srcError
    /\ hist.skipped = 1
    /\ hist.full = 1
    /\ kept = 1
    /\ Len(all_jsonl) = 1
    /\ total_kept = 3

\* The directories the precedence rule names, as a set.
C8_Expected ==
    LET hints == Truthy(test_name) /\ Truthy(sched_type)
        hinted == { d \in SubDirs :
                      /\ hints
                      /\ startswith(d, test_name[1] \o US \o sched_type[1] \o US)
                      /\ looks_like_run_dir(d) }
        auto == { d \in SubDirs : looks_like_run_dir(d) }
    IN  IF hinted # {} THEN hinted
        ELSE IF auto # {} THEN auto
        ELSE IF looks_like_run_dir(TopName) THEN {TopName}
        ELSE {}

\* C8: find_run_dirs returns, in increasing order of name and without repeats,
\* (1) the subdirectories with the hinted prefix that look like run directories,
\* if both hints are set and there is one; (2) else the subdirectories that look
\* like run directories, if there is one; (3) else the top directory alone, if it
\* looks like a run directory; (4) else nothing. (A hint is set when the
\* environment variable is defined and not empty.)
C8_Precedence ==
    mpc = "loop" =>
        /\ Range(run_dirs) = C8_Expected
        /\ \A i, j \in DOMAIN run_dirs : i < j => PathLess(run_dirs[i], run_dirs[j])
        /\ \A i \in DOMAIN run_dirs : looks_like_run_dir(run_dirs[i])

\* Hints that match no subdirectory, and autodetection finds two.
C8_Witness ==
    /\ mpc = "loop"
    /\ Truthy(test_name)
    /\ Truthy(sched_type)
    /\ \A d \in SubDirs :
          ~startswith(d, test_name[1] \o US \o sched_type[1] \o US)
    /\ Len(run_dirs) = 2

\* C9: whenever a level set was built from --levels, no sink holds a record
\* whose level is outside it, and kept counts no such record.
C9_FilterExcludes ==
    level_set # None =>
        /\ \A e \in StructuredRecords : e.level \in level_set[1]
        /\ level_set[1] = {} => (kept = 0 /\ \A n \in NodeIds : ~writers[n])

\* C10: a second invocation over the same logs, with the same --levels and the
\* same output subdirectory, ends with the same output files, the same contents
\* and the same counts as the first, whatever order each traversal yields the
\* log files in.
C10_Idempotent ==
    (mpc = "done" /\ run = 2) => Snapshot = firstRun[1]

====
